---- MODULE Spec2Model ----
(***************************************************************************)
(* Model of scripts/sct_dmri_separate_b0_and_dwi.py: the classification of *)
(* the frames of a diffusion dataset into b=0 and DWI frames (identify_b0) *)
(* and the run of main that splits the 4-D volume, merges each class and   *)
(* optionally averages it.                                                 *)
(*                                                                         *)
(* Numbers.  Gradient components are held in thousandths (1000 is 1.0, 10  *)
(* is 0.01); b-values and the b-value threshold are held in s/mm2.  Python *)
(* values whose type matters (None, int, float, str) are records           *)
(* [type, val]; a one-character string '0' or '1' holds its digit in val.  *)
(* Python lists are sequences; Python indices are 0-based and the lists    *)
(* index_b0 and index_dwi hold 0-based frame indices as the code does.     *)
(***************************************************************************)
EXTENDS Integers, Sequences, FiniteSets, TLC

(***************************************************************************)
(* Bounds of the model.                                                    *)
(***************************************************************************)
\* Largest number of frames of a dataset.
MaxN == 3

(***************************************************************************)
(* Python values.                                                          *)
(***************************************************************************)
PyNone == [type |-> "none", val |-> 0]
PyInt(n) == [type |-> "int", val |-> n]
PyFloat(x) == [type |-> "float", val |-> x]
PyStr(d) == [type |-> "str", val |-> d]

\* Python's truth value of an object: None and zero numbers are false, a
\* non-empty string is true.
Truthy(v) == CASE v.type = "none" -> FALSE
               [] v.type = "str" -> TRUE
               [] OTHER -> v.val # 0

\* Python's == between two objects: a str never equals an int.
PyEq(x, y) == x.type = y.type /\ x.val = y.val

(***************************************************************************)
(* Param: the defaults of the run.                                         *)
(***************************************************************************)
Param == [average |-> 1, remove_temp_files |-> 1, bval_min |-> 100]

(***************************************************************************)
(* Inputs: what the user may pass and what the files may hold.             *)
(***************************************************************************)
\* Gradient vectors: null, norm 0.009, norm exactly 0.01 on one axis and on
\* two axes (0.006, 0.008), a unit vector.
Vecs == {<<0, 0, 0>>, <<0, -9, 0>>, <<10, 0, 0>>, <<6, 8, 0>>, <<0, 0, 1000>>}

\* Gradient vectors of the runs that have a b-value table.
BvalModeVecs == {<<0, 0, 0>>, <<0, 0, 1000>>}

\* b-values of a b-value table.
BvalChoices == {0, 99, 100}

\* -bvalmin: not given, or a non-negative float.
BvalminArgs == {PyNone, PyFloat(0), PyFloat(99)}

\* -r: not given (the int default of Param), or one of the choices '0', '1'.
RArgs == {PyInt(Param.remove_temp_files), PyStr(0), PyStr(1)}

\* -a: type=int, choices (0, 1).
AArgs == {0, 1}

\* All n x 3 tables with rows from vs, 1 <= n <= MaxN.
Nx3Tables(vs) == UNION {[1..n -> vs] : n \in 1..MaxN}

\* The rows of a rectangular table written the other way round.
TransposeTable(t) == [j \in 1..Len(t[1]) |-> [i \in 1..Len(t) |-> t[i][j]]]

\* Files that are neither n x 3 nor 3 x n: an empty file, rows of 2, rows
\* of 4, a blank last line, a blank first line, rows of unequal length.
MalformedTables ==
    { <<>>,
      << <<0, 0>> >>,
      << <<1000, 0, 0, 0>>, <<0, 0, 0, 0>> >>,
      << <<0, 0, 0>>, <<>> >>,
      << <<>>, <<0, 0, 0>> >>,
      << <<0, 0, 0>>, <<0, 1000>> >> }

BvecsFiles == Nx3Tables(Vecs) \cup {TransposeTable(t) : t \in Nx3Tables(Vecs)}
                \cup MalformedTables

\* A file is rectangular with r rows of c values.
IsRect(t, r, c) == Len(t) = r /\ \A i \in 1..Len(t) : Len(t[i]) = c

\* The file is a gradient table of some n >= 1 frames, n x 3 or 3 x n.
WellFormed(t) ==
    /\ t # <<>>
    /\ \/ IsRect(t, Len(t), 3)
       \/ Len(t[1]) >= 1 /\ IsRect(t, 3, Len(t[1]))

\* Number of frames a well-formed table describes (a 3 x 3 table: 3).
FrameCount(t) == IF IsRect(t, Len(t), 3) THEN Len(t) ELSE Len(t[1])

\* Frames of the 4-D volume that comes with a gradient file: as many as the
\* table describes; for a malformed file, as many as it has lines.
VolumeFrames(t) == IF WellFormed(t) THEN FrameCount(t)
                   ELSE IF Len(t) = 0 THEN 1 ELSE Len(t)

(***************************************************************************)
(* identify_b0: the helpers.                                               *)
(***************************************************************************)
\* [x for x in map(float, line.split())] for every line of the bvecs file:
\* one list per line, a blank line gives an empty list.
ReadBvecsLines(file) == [i \in 1..Len(file) |-> file[i]]

\* The test "not len(bvecs[0][:]) == 3": only the first row is looked at.
NeedsTranspose(bvecs) == ~(Len(bvecs[1]) = 3)

RECURSIVE MinLen(_, _)
\* Length of the shortest of rows[k..]; -1 when there is none.
MinLen(rows, k) ==
    IF k > Len(rows) THEN -1
    ELSE LET rest == MinLen(rows, k + 1)
         IN IF rest = -1 \/ Len(rows[k]) < rest THEN Len(rows[k]) ELSE rest

\* list(zip(*bvecs)): the j-th tuple holds the j-th value of every row; zip
\* stops at the shortest row.
ZipStar(bvecs) ==
    IF bvecs = <<>> THEN <<>>
    ELSE [j \in 1..MinLen(bvecs, 1) |-> [i \in 1..Len(bvecs) |-> bvecs[i][j]]]

\* [i**2 for i in v]
Squares(v) == [k \in 1..Len(v) |-> v[k] * v[k]]

RECURSIVE Fsum(_)
\* math.fsum: the exact sum of the values.
Fsum(s) == IF s = <<>> THEN 0 ELSE s[1] + Fsum(Tail(s))

\* The threshold 0.01 on the norm of a gradient vector, in thousandths.
NormThreshold == 10

\* math.sqrt(s) < t, for s >= 0 and t >= 0, decided on the squares.
SqrtBelow(s, t) == s < t * t

\* A comparison that takes a norm of exactly 0.01 as well.
NormBelow_Inclusive(v) == Fsum(Squares(v)) <= NormThreshold * NormThreshold

\* math.sqrt(math.fsum([i**2 for i in v])) < 0.01
NormBelow(v) == SqrtBelow(Fsum(Squares(v)), NormThreshold)

\* A comparison that takes a b-value equal to the threshold as well.
BvalBelow_Inclusive(b, bval_min) == b <= bval_min

\* bvals[it] < bval_min
BvalBelow(b, bval_min) == b < bval_min

RECURSIVE LoopBvecs(_, _, _, _)
\* A loop that starts at the second row.
LoopBvecs_SkipFirst(bvecs, it, index_b0, index_dwi) ==
    LET from == IF it = 0 THEN 1 ELSE it
    IN IF from >= Len(bvecs) THEN <<index_b0, index_dwi>>
       ELSE IF NormBelow(bvecs[from + 1])
            THEN LoopBvecs(bvecs, from + 1, Append(index_b0, from), index_dwi)
            ELSE LoopBvecs(bvecs, from + 1, index_b0, Append(index_dwi, from))

\* for it in range(0, nt): the rows of norm below 0.01 go to index_b0, the
\* others to index_dwi; the loop is at row `it`.
LoopBvecs(bvecs, it, index_b0, index_dwi) ==
    IF it >= Len(bvecs) THEN <<index_b0, index_dwi>>
    ELSE IF NormBelow(bvecs[it + 1])
         THEN LoopBvecs(bvecs, it + 1, Append(index_b0, it), index_dwi)
         ELSE LoopBvecs(bvecs, it + 1, index_b0, Append(index_dwi, it))

RECURSIVE LoopBvals(_, _, _, _, _)
\* for it in range(0, nt): the b-values below bval_min go to index_b0, the
\* others to index_dwi; the loop is at value `it`.
LoopBvals(bvals, bval_min, it, index_b0, index_dwi) ==
    IF it >= Len(bvals) THEN <<index_b0, index_dwi>>
    ELSE IF BvalBelow(bvals[it + 1], bval_min)
         THEN LoopBvals(bvals, bval_min, it + 1, Append(index_b0, it), index_dwi)
         ELSE LoopBvals(bvals, bval_min, it + 1, index_b0, Append(index_dwi, it))

\* dipy's read_bvals_bvecs: the two tables of the two files.
ReadBvalsBvecs(bvals_f, bvecs_f) == <<bvals_f, bvecs_f>>

\* A check that never fires.
NoB0Detected_Never(index_b0) == FALSE

\* The test "index_b0 == []".
NoB0Detected(index_b0) == index_b0 = <<>>

\* What a call of identify_b0 ends with: "ok" with the four values it
\* returns, "exit2" for sys.exit(2), "IndexError" for bvecs[0] of an empty
\* file.
Outcome(status, index_b0, index_dwi) ==
    [status |-> status, index_b0 |-> index_b0, index_dwi |-> index_dwi,
     nb_b0 |-> Len(index_b0), nb_dwi |-> Len(index_dwi)]

\* The end of identify_b0, from the check of index_b0 on.
Conclude(lists) ==
    IF NoB0Detected(lists[1])
    THEN Outcome("exit2", <<>>, <<>>)
    ELSE Outcome("ok", lists[1], lists[2])

\* A reading that never transposes.
TransposeHandling_Never(bvecs) == bvecs

\* The bvecs as classified: transposed when the first row has not 3 values.
TransposeHandling(bvecs) ==
    IF NeedsTranspose(bvecs) THEN ZipStar(bvecs) ELSE bvecs

(***************************************************************************)
(* identify_b0(fname_bvecs, fname_bvals, bval_min, verbose); the two files *)
(* are given by what they hold.                                            *)
(***************************************************************************)
identify_b0(bvecs_f, fname_bvals, bvals_f, bval_min) ==
    IF fname_bvals = ""
    THEN LET bvecs == ReadBvecsLines(bvecs_f)
         IN IF bvecs = <<>>
            THEN Outcome("IndexError", <<>>, <<>>)
            ELSE Conclude(LoopBvecs(TransposeHandling(bvecs), 0, <<>>, <<>>))
    ELSE LET bvals == ReadBvalsBvecs(bvals_f, bvecs_f)[1]
         IN Conclude(LoopBvals(bvals, bval_min, 0, <<>>, <<>>))

(***************************************************************************)
(* main: file names and the collaborators.                                 *)
(***************************************************************************)
RECURSIVE Str(_)
\* str(i) of an int i >= 0: its decimal digits.
Str(i) == IF i < 10 THEN <<i>> ELSE Append(Str(i \div 10), i % 10)

RECURSIVE Zfill(_, _)
\* s.zfill(width): zeros on the left up to the width.
Zfill(s, width) == IF Len(s) >= width THEN s ELSE Zfill(<<0>> \o s, width)

\* dmri_name + '_T' + str(i).zfill(4) + ext
FrameFileName(i) == [base |-> "dmri", dim |-> "_T", num |-> Zfill(Str(i), 4),
                     ext |-> ".nii"]

RECURSIVE MergeLoop(_, _, _, _)
\* A loop that appends the first frame of the class at every turn.
MergeLoop_FirstOnly(index, nb, it, l) ==
    IF it >= nb THEN l
    ELSE MergeLoop(index, nb, it + 1, Append(l, FrameFileName(index[1])))

\* for it in range(nb): l.append(dmri_name + '_T' + str(index[it]).zfill(4)
\* + ext); the loop is at `it`.
MergeLoop(index, nb, it, l) ==
    IF it >= nb THEN l
    ELSE MergeLoop(index, nb, it + 1, Append(l, FrameFileName(index[it + 1])))

\* The content of frame i of the source volume: the frame acquired i-th.
SourceFrame(i) == [acquired |-> i]

\* Image(dmri_name + ext) of a dataset of nt frames.
SourceVolume(n) == [k \in 1..n |-> SourceFrame(k - 1)]

\* split_data(im_dmri, 3) and the save of every frame: one file per frame,
\* named by the frame's index along T.
SplitData(im) == [name \in {FrameFileName(k - 1) : k \in 1..Len(im)}
                    |-> im[CHOOSE k \in 1..Len(im) : FrameFileName(k - 1) = name]]

\* concat_data(l, 3): what the call may end with.  A file of the list that
\* does not exist is an error; an empty list is an error or an empty volume.
ConcatOutcomes(l, files) ==
    IF l = <<>> THEN {"error", "ok"}
    ELSE IF \E k \in 1..Len(l) : l[k] \notin DOMAIN files THEN {"error"}
    ELSE {"ok"}

\* concat_data(l, 3): the frames of the files, in the order of the list.
ConcatData(l, files) == [k \in 1..Len(l) |-> files[l[k]]]

(***************************************************************************)
(* The state of a run of main.                                             *)
(***************************************************************************)
VARIABLES
    pc,                 \* where main is
    arguments,          \* parser.parse_args: a, bval, bvalmin, r
    bvecs_file,         \* the lines of the bvecs file
    bvals_file,         \* the values of the bvals file (<<>> when none)
    im_dmri,            \* the frames of the source volume
    param_bval_min,     \* param.bval_min
    average,            \* average
    remove_temp_files,  \* remove_temp_files
    fname_bvals,        \* fname_bvals
    identify_args,      \* the arguments of the call of identify_b0
    identify_status,    \* how the call of identify_b0 ended
    index_b0, index_dwi, nb_b0, nb_dwi,
    l,                  \* the list of file names of the merge
    concat_calls,       \* the lists concat_data was called with, in order
    split_files,        \* the frame files of the temporary folder
    vol_b0, vol_dwi,    \* the frames of the two merged volumes
    tmp_files,          \* the volumes written to the temporary folder
    outputs,            \* the files generated in the output folder
    tmp_exists,         \* the temporary folder exists
    exit_status         \* the exit status, once pc is "done", "exited", "crashed"

vars == <<pc, arguments, bvecs_file, bvals_file, im_dmri, param_bval_min,
          average, remove_temp_files, fname_bvals, identify_args,
          identify_status, index_b0, index_dwi, nb_b0, nb_dwi, l, concat_calls,
          split_files, vol_b0, vol_dwi, tmp_files, outputs, tmp_exists,
          exit_status>>

inputs == <<arguments, bvecs_file, bvals_file, im_dmri>>
params == <<param_bval_min, average, remove_temp_files, fname_bvals>>
classification == <<identify_args, identify_status, index_b0, index_dwi,
                    nb_b0, nb_dwi>>
merged == <<l, concat_calls, vol_b0, vol_dwi>>

\* A run without a b-value table: any bvecs file.  A run with one: an
\* n x 3 bvecs file and n b-values.
Init ==
    /\ pc = "start"
    /\ \E a \in AArgs, bvalmin \in BvalminArgs, r \in RArgs :
         \/ /\ arguments = [a |-> a, bval |-> "", bvalmin |-> bvalmin, r |-> r]
            /\ bvecs_file \in BvecsFiles
            /\ bvals_file = <<>>
            /\ im_dmri = SourceVolume(VolumeFrames(bvecs_file))
         \/ /\ arguments = [a |-> a, bval |-> "bvals.txt", bvalmin |-> bvalmin,
                            r |-> r]
            /\ \E n \in 1..MaxN :
                 /\ bvecs_file \in [1..n -> BvalModeVecs]
                 /\ bvals_file \in [1..n -> BvalChoices]
                 /\ im_dmri = SourceVolume(n)
    /\ param_bval_min = Param.bval_min
    /\ average = Param.average
    /\ remove_temp_files = PyInt(Param.remove_temp_files)
    /\ fname_bvals = ""
    /\ identify_args = [fname_bvals |-> "", bval_min |-> 0]
    /\ identify_status = "not called"
    /\ index_b0 = <<>> /\ index_dwi = <<>> /\ nb_b0 = 0 /\ nb_dwi = 0
    /\ l = <<>>
    /\ concat_calls = <<>>
    /\ split_files = <<>>
    /\ vol_b0 = <<>> /\ vol_dwi = <<>>
    /\ tmp_files = {}
    /\ outputs = {}
    /\ tmp_exists = FALSE
    /\ exit_status = 0

(***************************************************************************)
(* main, step by step.  The collaborators that only move files (convert,   *)
(* copy, sct_maths, generate_output_file) succeed.                         *)
(***************************************************************************)
\* "if arguments.bvalmin: param.bval_min = arguments.bvalmin"
BvalMinOf(bvalmin, default) == IF Truthy(bvalmin) THEN bvalmin.val ELSE default

\* "if remove_temp_files == 1"
RemovalAsked(r) == PyEq(r, PyInt(1))

\* "if average"
AverageAsked(a) == a # 0

\* From the parsing of the arguments to the reading of the dimensions: the
\* arguments are taken over and the temporary folder is created.
ParseArgs ==
    /\ pc = "start"
    /\ average' = arguments.a
    /\ remove_temp_files' = arguments.r
    /\ fname_bvals' = arguments.bval
    /\ param_bval_min' = BvalMinOf(arguments.bvalmin, param_bval_min)
    /\ tmp_exists' = TRUE
    /\ pc' = "identify"
    /\ UNCHANGED <<inputs, classification, merged, split_files, tmp_files,
                   outputs, exit_status>>

\* index_b0, index_dwi, nb_b0, nb_dwi = identify_b0(fname_bvecs, fname_bvals,
\* param.bval_min, verbose): the call returns, exits with status 2, or
\* raises.
Identify ==
    /\ pc = "identify"
    /\ LET r == identify_b0(bvecs_file, fname_bvals, bvals_file, param_bval_min)
       IN /\ identify_args' = [fname_bvals |-> fname_bvals,
                               bval_min |-> param_bval_min]
          /\ identify_status' = r.status
          /\ index_b0' = r.index_b0
          /\ index_dwi' = r.index_dwi
          /\ nb_b0' = r.nb_b0
          /\ nb_dwi' = r.nb_dwi
          /\ pc' = CASE r.status = "ok" -> "split"
                     [] r.status = "exit2" -> "exited"
                     [] OTHER -> "crashed"
          /\ exit_status' = CASE r.status = "ok" -> exit_status
                              [] r.status = "exit2" -> 2
                              [] OTHER -> 1
    /\ UNCHANGED <<inputs, params, merged, split_files, tmp_files, outputs,
                   tmp_exists>>

\* Split along T and save every frame.
Split ==
    /\ pc = "split"
    /\ split_files' = SplitData(im_dmri)
    /\ pc' = "merge_b0"
    /\ UNCHANGED <<inputs, params, classification, merged, tmp_files, outputs,
                   tmp_exists, exit_status>>

\* Merge b=0 images: the list is built from empty and handed to concat_data.
MergeB0 ==
    /\ pc = "merge_b0"
    /\ l' = MergeLoop(index_b0, nb_b0, 0, <<>>)
    /\ concat_calls' = Append(concat_calls, l')
    /\ \E outcome \in ConcatOutcomes(l', split_files) :
         IF outcome = "ok"
         THEN /\ vol_b0' = ConcatData(l', split_files)
              /\ tmp_files' = tmp_files \cup {"b0"}
              /\ pc' = "average_b0"
              /\ UNCHANGED exit_status
         ELSE /\ pc' = "crashed"
              /\ exit_status' = 1
              /\ UNCHANGED <<vol_b0, tmp_files>>
    /\ UNCHANGED <<inputs, params, classification, vol_dwi, split_files,
                   outputs, tmp_exists>>

\* Average b=0 images, when asked.
AverageB0 ==
    /\ pc = "average_b0"
    /\ tmp_files' = IF AverageAsked(average) THEN tmp_files \cup {"b0_mean"}
                    ELSE tmp_files
    /\ pc' = "merge_dwi"
    /\ UNCHANGED <<inputs, params, classification, merged, split_files,
                   outputs, tmp_exists, exit_status>>

\* Merge DWI: the list is built from empty again and handed to concat_data.
MergeDwi ==
    /\ pc = "merge_dwi"
    /\ l' = MergeLoop(index_dwi, nb_dwi, 0, <<>>)
    /\ concat_calls' = Append(concat_calls, l')
    /\ \E outcome \in ConcatOutcomes(l', split_files) :
         IF outcome = "ok"
         THEN /\ vol_dwi' = ConcatData(l', split_files)
              /\ tmp_files' = tmp_files \cup {"dwi"}
              /\ pc' = "average_dwi"
              /\ UNCHANGED exit_status
         ELSE /\ pc' = "crashed"
              /\ exit_status' = 1
              /\ UNCHANGED <<vol_dwi, tmp_files>>
    /\ UNCHANGED <<inputs, params, classification, vol_b0, split_files,
                   outputs, tmp_exists>>

\* Average DWI images, when asked.
AverageDwi ==
    /\ pc = "average_dwi"
    /\ tmp_files' = IF AverageAsked(average) THEN tmp_files \cup {"dwi_mean"}
                    ELSE tmp_files
    /\ pc' = "output"
    /\ UNCHANGED <<inputs, params, classification, merged, split_files,
                   outputs, tmp_exists, exit_status>>

\* Generate output files: the two volumes and, when averaged, the two means.
GenerateOutput ==
    /\ pc = "output"
    /\ outputs' = {"b0", "dwi"} \cup
                  (IF AverageAsked(average) THEN {"b0_mean", "dwi_mean"} ELSE {})
    /\ pc' = "remove_temp"
    /\ UNCHANGED <<inputs, params, classification, merged, split_files,
                   tmp_files, tmp_exists, exit_status>>

\* Remove temporary files, when remove_temp_files == 1, and return.
RemoveTemp ==
    /\ pc = "remove_temp"
    /\ tmp_exists' = IF RemovalAsked(remove_temp_files) THEN FALSE
                     ELSE tmp_exists
    /\ pc' = "done"
    /\ exit_status' = 0
    /\ UNCHANGED <<inputs, params, classification, merged, split_files,
                   tmp_files, outputs>>

Next ==
    \/ ParseArgs
    \/ Identify
    \/ Split
    \/ MergeB0
    \/ AverageB0
    \/ MergeDwi
    \/ AverageDwi
    \/ GenerateOutput
    \/ RemoveTemp

Spec == Init /\ [][Next]_vars

(***************************************************************************)
(* Properties.                                                             *)
(***************************************************************************)
Range(s) == {s[k] : k \in 1..Len(s)}

StrictlyAscending(s) == \A j, k \in 1..Len(s) : j < k => s[j] < s[k]

RECURSIVE DigitsValue(_)
\* The number a sequence of decimal digits writes.
DigitsValue(d) ==
    IF d = <<>> THEN 0 ELSE 10 * DigitsValue(SubSeq(d, 1, Len(d) - 1)) + d[Len(d)]

\* Squared norm of a 3-component vector, in squared thousandths.
NormSq3(v) == v[1] * v[1] + v[2] * v[2] + v[3] * v[3]

\* The run has no b-value table.
NoBvals == arguments.bval = ""

\* identify_b0 has been called and has returned its four values.
Returned == identify_status = "ok"

\* identify_b0 has been called.
Called == identify_status # "not called"

\* The dataset is a valid one: a b-value table, or a well-formed gradient
\* table.
ValidInput == ~NoBvals \/ WellFormed(bvecs_file)

\* The frames of a gradient file that holds an n x 3 or a 3 x n table, one
\* vector per frame (a 3 x 3 file is read as n x 3).
FramesOf(t) == IF IsRect(t, Len(t), 3) THEN t ELSE TransposeTable(t)

\* C1: whenever identify_b0 returns, for a table of N >= 1 frames (a
\* well-formed gradient table, or a b-value table of N values), index_b0 and
\* index_dwi are strictly ascending, disjoint, together hold exactly the
\* indices 0..N-1, and nb_b0 and nb_dwi are their lengths.
C1_Partition ==
    (Returned /\ ValidInput) =>
        LET N == IF NoBvals THEN FrameCount(bvecs_file) ELSE Len(bvals_file)
        IN /\ StrictlyAscending(index_b0)
           /\ StrictlyAscending(index_dwi)
           /\ Range(index_b0) \cup Range(index_dwi) = 0..(N - 1)
           /\ Range(index_b0) \cap Range(index_dwi) = {}
           /\ Len(index_b0) + Len(index_dwi) = N
           /\ nb_b0 = Len(index_b0)
           /\ nb_dwi = Len(index_dwi)

\* C1 witness: a returned classification of three frames with two b=0
\* frames, the first frame among the DWI.
C1_Witness ==
    /\ Returned /\ NoBvals /\ WellFormed(bvecs_file)
    /\ index_b0 = <<1, 2>> /\ index_dwi = <<0>>

\* C2: for each class the list handed to concat_data names frame
\* index_list[0], index_list[1], ... in list order, the merged volume has
\* len(index_list) frames, its k-th frame is source frame index_list[k], and
\* the DWI volume holds no frame of the b=0 list.
C2_MergeOrder ==
    /\ \A c \in 1..Len(concat_calls) :
         LET index == IF c = 1 THEN index_b0 ELSE index_dwi
         IN /\ Len(concat_calls[c]) = Len(index)
            /\ \A k \in 1..Len(index) :
                 DigitsValue(concat_calls[c][k].num) = index[k]
    /\ "b0" \in tmp_files =>
         /\ Len(vol_b0) = Len(index_b0)
         /\ \A k \in 1..Len(index_b0) : vol_b0[k] = im_dmri[index_b0[k] + 1]
    /\ "dwi" \in tmp_files =>
         /\ Len(vol_dwi) = Len(index_dwi)
         /\ \A k \in 1..Len(index_dwi) : vol_dwi[k] = im_dmri[index_dwi[k] + 1]
         /\ \A k \in 1..Len(vol_dwi), j \in 1..Len(index_b0) :
              vol_dwi[k] # im_dmri[index_b0[j] + 1]

\* C2 witness: both volumes are merged, the b=0 volume from frames 0 and 2,
\* the DWI volume from frame 1.
C2_Witness ==
    /\ "b0" \in tmp_files /\ "dwi" \in tmp_files
    /\ index_b0 = <<0, 2>> /\ index_dwi = <<1>>
    /\ Len(concat_calls) = 2

\* C3: with a b-value table, frame i is b=0 exactly when bvals[i] < bval_min
\* (a b-value equal to the threshold is DWI), for every i, and the gradient
\* vectors have no influence on the two lists.
C3_BvalThreshold ==
    (Called /\ ~NoBvals) =>
        LET bval_min == identify_args.bval_min
            N == Len(bvals_file)
        IN /\ Returned =>
                /\ \A i \in 0..(N - 1) :
                     /\ i \in Range(index_b0) <=> bvals_file[i + 1] < bval_min
                     /\ i \in Range(index_dwi) <=> bvals_file[i + 1] >= bval_min
                /\ \A g \in Nx3Tables(BvalModeVecs) :
                     Len(g) = N =>
                       LET r == identify_b0(g, fname_bvals, bvals_file, bval_min)
                       IN r.index_b0 = index_b0 /\ r.index_dwi = index_dwi
           /\ ~Returned => \A i \in 1..N : bvals_file[i] >= bval_min

\* C3 witness: a returned classification where a b-value equal to the
\* threshold is DWI and a b-value one unit below it is b=0.
C3_Witness ==
    /\ Returned /\ ~NoBvals
    /\ \E i, j \in 1..Len(bvals_file) :
         /\ bvals_file[i] = identify_args.bval_min
         /\ (i - 1) \in Range(index_dwi)
         /\ bvals_file[j] = identify_args.bval_min - 1
         /\ (j - 1) \in Range(index_b0)

\* C4: without a b-value table, frame i of an N x 3 table is b=0 exactly
\* when the Euclidean norm of its vector is below 0.01 (a norm of exactly
\* 0.01 is DWI, a null vector is b=0); the b-value threshold plays no role.
C4_NormThreshold ==
    (Called /\ NoBvals /\ IsRect(bvecs_file, Len(bvecs_file), 3)) =>
        LET N == Len(bvecs_file)
        IN /\ Returned =>
                /\ \A i \in 0..(N - 1) :
                     /\ i \in Range(index_b0) <=> NormSq3(bvecs_file[i + 1]) < 100
                     /\ i \in Range(index_dwi) <=> NormSq3(bvecs_file[i + 1]) >= 100
                /\ \A m \in {0, 99, 100} :
                     LET r == identify_b0(bvecs_file, fname_bvals, bvals_file, m)
                     IN r.index_b0 = index_b0 /\ r.index_dwi = index_dwi
           /\ ~Returned => \A i \in 1..N : NormSq3(bvecs_file[i]) >= 100

\* C4 witness: a returned classification of a table with a vector of norm
\* 0.009 (b=0) and vectors of norm exactly 0.01 (DWI).
C4_Witness ==
    /\ Returned /\ NoBvals
    /\ bvecs_file = << <<0, -9, 0>>, <<10, 0, 0>>, <<6, 8, 0>> >>
    /\ index_b0 = <<0>> /\ index_dwi = <<1, 2>>

\* What identify_b0 ends with on the same table written the other way round.
OnTranspose ==
    identify_b0(TransposeTable(bvecs_file), fname_bvals, bvals_file,
                identify_args.bval_min)

\* C5 as stated: for every N >= 1, N = 3 included, a table supplied as
\* 3 x N and its transpose supplied as N x 3 give the same index_b0 and the
\* same index_dwi.
C5_AnyN ==
    (Called /\ NoBvals /\ WellFormed(bvecs_file)) =>
        /\ OnTranspose.status = identify_status
        /\ OnTranspose.index_b0 = index_b0
        /\ OnTranspose.index_dwi = index_dwi

\* C5 as amended: for every N >= 1 other than 3, a table supplied as 3 x N
\* and its transpose supplied as N x 3 give the same index_b0 and the same
\* index_dwi (a 3 x 3 file is always read as N x 3, never transposed).
C5_NotThree ==
    (Called /\ NoBvals /\ WellFormed(bvecs_file) /\ FrameCount(bvecs_file) # 3) =>
        /\ OnTranspose.status = identify_status
        /\ OnTranspose.index_b0 = index_b0
        /\ OnTranspose.index_dwi = index_dwi

\* C5 witness: a 3 x 2 file has been classified into one b=0 and one DWI
\* frame.
C5_Witness ==
    /\ Returned /\ NoBvals
    /\ IsRect(bvecs_file, 3, 2)
    /\ index_b0 = <<1>> /\ index_dwi = <<0>>

\* No frame of the table is b=0: every b-value is at or above the threshold
\* or, without b-values, every vector of a well-formed table has a norm of
\* 0.01 or more.
NoLowFrame ==
    IF NoBvals
    THEN /\ WellFormed(bvecs_file)
         /\ \A i \in 1..FrameCount(bvecs_file) :
              NormSq3(FramesOf(bvecs_file)[i]) >= 100
    ELSE \A i \in 1..Len(bvals_file) : bvals_file[i] >= identify_args.bval_min

\* C6: when classification leaves index_b0 empty the run ends there with a
\* non-zero exit status: identify_b0 never returns an empty index_b0, and
\* main splits no frame, merges and averages nothing and generates no file.
C6_NoB0Exits ==
    /\ Returned => index_b0 # <<>> /\ nb_b0 > 0
    /\ pc \in {"split", "merge_b0", "average_b0", "merge_dwi", "average_dwi",
               "output", "remove_temp", "done"} => index_b0 # <<>>
    /\ (Called /\ NoLowFrame) => identify_status = "exit2"
    /\ identify_status = "exit2" =>
         /\ pc = "exited"
         /\ exit_status # 0
         /\ split_files = <<>>
         /\ concat_calls = <<>>
         /\ tmp_files = {}
         /\ outputs = {}

\* C6 witness: a table of two vectors of norm 0.01 and 1 and no b-values
\* has ended the run with status 2.
C6_Witness ==
    /\ NoBvals
    /\ bvecs_file = << <<10, 0, 0>>, <<0, 0, 1000>> >>
    /\ identify_status = "exit2"
    /\ pc = "exited" /\ exit_status = 2

\* C7: without a b-value table, when after the transposition handling a row
\* of the gradient table has not exactly 3 components, identify_b0 fails and
\* returns no classification.
C7_MalformedRejected ==
    (Called /\ NoBvals /\ bvecs_file # <<>>
       /\ \E k \in 1..Len(TransposeHandling(bvecs_file)) :
            Len(TransposeHandling(bvecs_file)[k]) # 3)
      => ~Returned

\* C8: on a valid dataset concat_data is never called with an empty list
\* of frames: an empty class fails before the call.
C8_NoEmptyConcat ==
    ValidInput => \A c \in 1..Len(concat_calls) : concat_calls[c] # <<>>

\* C9: the threshold passed to identify_b0 is the value given with -bvalmin
\* for every non-negative value given, 0 included, and the default 100
\* exactly when -bvalmin is not given (checked on the valid datasets).
C9_ThresholdPassed ==
    (Called /\ ValidInput) =>
        identify_args.bval_min =
            IF arguments.bvalmin.type = "none" THEN 100 ELSE arguments.bvalmin.val

\* C10: at the end of a run that reached output generation the temporary
\* folder is removed exactly when temp-file removal is 1: with -r left at
\* its default, with -r 1 given; it is kept with -r 0 (checked on the runs
\* of valid datasets that have frames of both classes).
C10_TempRemoved ==
    (pc = "done" /\ ValidInput /\ index_dwi # <<>>) =>
        (~tmp_exists <=> (arguments.r = PyInt(1) \/ arguments.r = PyStr(1)))

====
